---- MODULE Spec2Model ----
(***************************************************************************)
(* Model of A1/main.cpp of AVENIS: the convergence-study driver (main),    *)
(* Diffusion<dim>::Setup_System and Diffusion<dim>::Solve_Linear_Systam,   *)
(* run by a fixed group of MPI ranks.  Every rank executes main; the       *)
(* PETSc calls that are collective are rendezvous points between ranks.    *)
(***************************************************************************)
EXTENDS Integers, Sequences, FiniteSets, TLC

(* ----------------------------- bounds --------------------------------- *)
\* number of MPI ranks in PETSC_COMM_WORLD
NRanks == 2
\* width in bits of int / unsigned in the model
IntWidth == 3
\* number of PETSc calls that return a failure in one run
MaxFaults == 1
\* largest number of rows a rank owns in the scatter specification
MaxOwned == 2
\* largest length of the local array in the scatter specification
MaxLocal == 2

Ranks == 0 .. (NRanks - 1)

\* values given on the command line to -p_0, -p_n, -h_0, -h_n
P0Vals == {0, 1}
PnVals == {1, 2}
H0Vals == {0 - 1, 0, 1}
HnVals == {1, 2}

\* the options of main that take an integer
LoopOptions == {"-p_0", "-p_n", "-h_0", "-h_n", "-amr"}
\* values given to -ksp_type, -pc_type (read by KSPSetFromOptions and
\* PCSetFromOptions) and to -face_basis
KspTypeVals == {"gmres"}
PcTypeVals == {"jacobi"}
FaceBasisVals == {"legendre", "lagrange", "nodal"}
\* values an int of main that was never assigned may hold
UninitVals == {0, 1}

\* nonzero PetscErrorCode values a failing PETSc call returns
ErrVals == {55}
\* KSPConvergedReason / iteration count pairs KSPSolve stops with
\* (2 = KSP_CONVERGED_RTOL, -3 = KSP_DIVERGED_ITS)
KSPOutcomes == {[reason |-> 2, its |-> 1], [reason |-> 0 - 3, its |-> 4]}

\* content of storage that was never written
Undefined == 0 - 1

(* ----------------------------- helpers -------------------------------- *)
Modulus == 2 ^ IntWidth

\* the casts (unsigned)p_1, (unsigned)p_2, (unsigned)h_1, (unsigned)h_2
ToUnsigned(i) == i % Modulus

IsPrefix(s, t) == /\ Len(s) <= Len(t)
                  /\ \A i \in 1 .. Len(s) : s[i] = t[i]

\* positions of the event e in the log s
Positions(s, e) == {i \in 1 .. Len(s) : s[i] = e}

(* ------------------- DOF counter (Count_Globals) ----------------------- *)
\* rows owned by rank r after refinement to level h
NumOwned(h, r) == 1 + (IF r = 0 THEN h % 2 ELSE 0)

\* total number of global DOFs after refinement to level h
NumAll(h) == NRanks + (h % 2)

\* first row owned by rank r: the sum of the owned counts of the lower ranks
RECURSIVE OwnedLo(_, _)
OwnedLo(h, r) == IF r = 0 THEN 0 ELSE OwnedLo(h, r - 1) + NumOwned(h, r - 1)

\* number of skeleton DOFs rank r needs in its local array
NumLocal(h, r) == 2

\* what Refine_Grid(h) followed by Count_Globals() leaves in the instance of
\* rank r: the counts and the scatter index pair (0-based indices).  The last
\* row the rank owns and the first row of the next rank are wanted locally,
\* stored in the local array in reverse order.
Count_Globals(inst, h, r) ==
    [inst EXCEPT
        !.num_local_DOFs_on_this_rank = NumLocal(h, r),
        !.num_global_DOFs_on_this_rank = NumOwned(h, r),
        !.num_global_DOFs_on_all_ranks = NumAll(h),
        !.scatter_from = [i \in 1 .. NumLocal(h, r) |->
                            (OwnedLo(h, r) + NumOwned(h, r) - 1 + (i - 1)) % NumAll(h)],
        !.scatter_to = [i \in 1 .. NumLocal(h, r) |-> NumLocal(h, r) - i],
        !.n_local_DOFs_connected_to_DOF = [i \in 1 .. NumOwned(h, r) |-> NumOwned(h, r)],
        !.n_nonlocal_DOFs_connected_to_DOF =
            [i \in 1 .. NumOwned(h, r) |-> NumAll(h) - NumOwned(h, r)],
        !.pair_cycle = inst.refn_cycle]

\* Refine_Grid(h): the mesh, hence the DOF set, changes
Refine_Grid(inst, h) ==
    [inst EXCEPT !.refn_cycle = inst.refn_cycle + 1, !.level = h]

\* state of a Diffusion<dim> object right after its constructor
NewDiffusion(order, size, rank) ==
    [alive |-> TRUE, poly_order |-> order, comm_size |-> size, comm_rank |-> rank,
     refn_cycle |-> 0, level |-> 0,
     num_local_DOFs_on_this_rank |-> 0,
     num_global_DOFs_on_this_rank |-> 0,
     num_global_DOFs_on_all_ranks |-> 0,
     scatter_from |-> << >>, scatter_to |-> << >>, pair_cycle |-> 0,
     n_local_DOFs_connected_to_DOF |-> << >>,
     n_nonlocal_DOFs_connected_to_DOF |-> << >>,
     solved_cycle |-> 0,
     global_mat |-> "null", RHS_vec |-> "null",
     solution_vec |-> "null", exact_solution |-> "null"]

\* no Diffusion<dim> object in scope
NoDiffusion == [NewDiffusion(0, 0, 0) EXCEPT !.alive = FALSE]

(* ------------------------------ state --------------------------------- *)
VARIABLES
    opts,            \* the options database: the options given and their values
    io,              \* io[r]: what rank r did to the output streams, in order
    petsc,           \* petsc[r]: library state of rank r, live PETSc objects
    pc,              \* pc[r]: the statement rank r executes next
    inColl,          \* inColl[r]: rank r is inside the collective call pc[r]
    locals,          \* locals[r]: main's p_1 p_2 h_1 h_2 and loop counters p1 h1
    diff0,           \* diff0[r]: the Diffusion<dim> object of rank r
    sls,             \* sls[r]: the locals of Solve_Linear_Systam on rank r
    vec_data,        \* vec_data[r]: the entries of solution_vec owned by rank r
    Execution_Time,  \* the lines of the execution-time log
    calls,           \* calls[r]: calls main made on diff0, in order
    ev,              \* ev[r]: the steps of the current Solve_Linear_Systam call
    coll,            \* coll[r]: collective operations rank r has entered
    solves,          \* solves[r]: what each finished Solve_Linear_Systam left
    instances,       \* instances[r]: degrees a Diffusion object was built for
    failed,          \* failed[r]: the first failure a PETSc call returned
    exitCode,        \* exitCode[r]: value main returned
    ksp,             \* how the current collective KSPSolve stops
    faults           \* number of failures returned so far

vars == <<opts, io, petsc, pc, inColl, locals, diff0, sls, vec_data, Execution_Time, calls,
          ev, coll, solves, instances, failed, exitCode, ksp, faults>>

\* value of `return 0` (line 229, line 459) and of a successful PETSc call
NoErr == 0

NoFailure == [code |-> NoErr, call |-> "none"]

\* a KSP handle that names no solver
NoKSP == [rtol |-> "", ksp_type |-> "", pc_type |-> "", pc_gamg_type |-> "",
          pc_gamg_nsmooths |-> 0]

\* sizes of objects that were not created
NoSizes ==
    [global_mat |-> [m |-> 0, n |-> 0, M |-> 0, N |-> 0],
     RHS_vec |-> [n |-> 0, N |-> 0],
     solution_vec |-> [n |-> 0, N |-> 0],
     exact_solution |-> [n |-> 0, N |-> 0]]

\* uninitialised locals of Solve_Linear_Systam
NoSolve ==
    [ret |-> NoErr, rows_owned_lo |-> 0, rows_owned_hi |-> 0,
     sizes |-> NoSizes, d_nnz |-> << >>, o_nnz |-> << >>,
     solver |-> NoKSP, norms |-> {},
     How_KSP_Stopped |-> 0, num_iter |-> 0, stopped |-> FALSE,
     TheSolver |-> "null", from |-> << >>, to |-> << >>, scatter |-> "null",
     x |-> "null", x_array |-> << >>, in_flight |-> << >>,
     local_solution_vec_p |-> "null", consumed |-> << >>,
     prev_solved |-> 0]

\* main's locals before any of them is assigned
NoLocals ==
    [p_1 |-> 0, p_2 |-> 0, h_1 |-> 0, h_2 |-> 0, p1 |-> 0, h1 |-> 0,
     found_options |-> 0, face_basis_type |-> "", face_basis_option_flag |-> FALSE,
     Adaptive |-> 0]

\* the library before SlepcInitialize: no object, not initialised
NoPetsc == [objects |-> 0, initialized |-> 0, finalized |-> 0]

Line(msg, val) == [msg |-> msg, val |-> val]

\* what Execution_Time.txt holds when the program starts: the log of an
\* earlier run
StaleLog == <<Line("Finished local solver", 0)>>

\* command lines that give the four loop bounds and -amr and nothing else
LoopCmdLines ==
    [given : {LoopOptions}, p_0 : P0Vals, p_n : PnVals, h_0 : H0Vals, h_n : HnVals,
     amr : {0}, ksp_type : {""}, pc_type : {""}, face_basis : {""}]

\* the state when main is entered with one of the command lines cmdlines
InitRun(cmdlines) ==
    /\ opts \in cmdlines
    /\ io = [r \in Ranks |-> << >>]
    /\ petsc = [r \in Ranks |-> NoPetsc]
    /\ pc = [r \in Ranks |-> "main"]
    /\ inColl = [r \in Ranks |-> FALSE]
    /\ locals = [r \in Ranks |-> NoLocals]
    /\ diff0 = [r \in Ranks |-> NoDiffusion]
    /\ sls = [r \in Ranks |-> NoSolve]
    /\ vec_data = [r \in Ranks |-> << >>]
    /\ Execution_Time = StaleLog
    /\ calls = [r \in Ranks |-> << >>]
    /\ ev = [r \in Ranks |-> << >>]
    /\ coll = [r \in Ranks |-> << >>]
    /\ solves = [r \in Ranks |-> << >>]
    /\ instances = [r \in Ranks |-> << >>]
    /\ failed = [r \in Ranks |-> NoFailure]
    /\ exitCode = [r \in Ranks |-> NoErr]
    /\ ksp = CHOOSE o \in KSPOutcomes : TRUE
    /\ faults = 0

Init == InitRun(LoopCmdLines)

(* --------------------------- control flow ------------------------------ *)
\* body of the inner loop of main (lines 452-454), then ++h1
LoopBody == <<"Setup_System", "Solve_Linear_Systam", "vtk_visualizer", "h_loop">>

\* the statements of Solve_Linear_Systam in program order (lines 94-229)
SLS_Steps ==
    <<"Solve_Linear_Systam", "Assemble_Globals", "MatAssemblyBegin",
      "MatAssemblyEnd", "VecAssembly", "KSPSetup", "KSPSolve",
      "VecScatterCreate", "VecScatterBegin", "VecScatterEnd", "VecGetArray",
      "Calculate_Internal_Unknowns", "Destroy">>

\* the element that follows l in the sequence seq
After(seq, l) == seq[(CHOOSE i \in 1 .. Len(seq) - 1 : seq[i] = l) + 1]

\* loop body with the visualizer called before the solve
LoopBodyNext_VtkFirst(l) ==
    After(<<"Setup_System", "vtk_visualizer", "Solve_Linear_Systam", "h_loop">>, l)

\* statement main executes after the statement l of the loop body
LoopBodyNext(l) == After(LoopBody, l)

\* where control is after Solve_Linear_Systam returned: main discards the
\* returned PetscErrorCode (line 453)
SLS_Return(ret) == LoopBodyNext("Solve_Linear_Systam")

\* Solve_Linear_Systam with Assemble_Globals called after the finalization
SLS_Next_InsertLate(l) ==
    After(<<"Solve_Linear_Systam", "MatAssemblyBegin", "MatAssemblyEnd",
            "VecAssembly", "Assemble_Globals", "KSPSetup", "KSPSolve",
            "VecScatterCreate", "VecScatterBegin", "VecScatterEnd", "VecGetArray",
            "Calculate_Internal_Unknowns", "Destroy">>, l)

\* Solve_Linear_Systam with the local array read before VecScatterEnd
SLS_Next_ReadEarly(l) ==
    After(<<"Solve_Linear_Systam", "Assemble_Globals", "MatAssemblyBegin",
            "MatAssemblyEnd", "VecAssembly", "KSPSetup", "KSPSolve",
            "VecScatterCreate", "VecScatterBegin", "VecGetArray",
            "Calculate_Internal_Unknowns", "VecScatterEnd", "Destroy">>, l)

\* statement that follows statement l inside Solve_Linear_Systam
SLS_Next(l) == After(SLS_Steps, l)

\* CHKERRQ(e): return e from the enclosing function when e is nonzero
CHKERRQ(e, next) == IF e # NoErr THEN SLS_Return(e) ELSE next

\* the calls of Solve_Linear_Systam that are collective over comm
Collectives ==
    {"MatAssemblyBegin", "MatAssemblyEnd", "VecAssembly", "KSPSolve",
     "VecScatterBegin", "VecScatterEnd"}

\* loop condition of both for loops: counter < (unsigned)bound
LoopCond(counter, bound) == counter < ToUnsigned(bound)

\* a logger that writes on every rank
OutLogger_AnyRank(logger, comm_rank, lines) == logger \o lines

\* if (comm_rank == 0) Execution_Time << ... (also OutLogger, lines 54-63, and
\* the blocks of main under `if (rank == 0)`)
OutLogger(logger, comm_rank, lines) ==
    IF comm_rank = 0 THEN logger \o lines ELSE logger

\* the Diffusion constructor opens Execution_Time.txt for appending: what the
\* file holds stays
OpenLog(log) == log

\* results a failing call may return: a failure only while the budget lasts
Returns == {NoErr} \cup (IF faults < MaxFaults THEN ErrVals ELSE {})

\* bookkeeping of a call of rank r named c that returned e
Returned(r, c, e) ==
    /\ faults' = IF e # NoErr THEN faults + 1 ELSE faults
    /\ failed' = IF e # NoErr /\ failed[r] = NoFailure
                 THEN [failed EXCEPT ![r] = [code |-> e, call |-> c]]
                 ELSE failed

(* ------------------------------- main ---------------------------------- *)
\* operations on the output streams: lines written, a file opened for writing
\* and thereby truncated
WriteTo(stream, lines) ==
    [i \in 1 .. Len(lines) |-> [stream |-> stream, op |-> "write", line |-> lines[i]]]

Truncate(stream) == [stream |-> stream, op |-> "truncate", line |-> Line("", 0)]

\* the stream operations of `if (comm_rank == 0) Execution_Time << lines`
Logged(comm_rank, lines) ==
    WriteTo("Execution_Time", OutLogger(<< >>, comm_rank, lines))

\* lines 360-395: SlepcInitialize; rank 0 prints the help line and opens, and
\* thereby truncates, Convergence_Result.txt and Execution_Time.txt
StartUp(r) ==
    /\ pc[r] = "main"
    /\ petsc' = [petsc EXCEPT ![r].initialized = @ + 1]
    /\ io' = [io EXCEPT ![r] =
                OutLogger(@, r, WriteTo("cout", <<Line("help_line", 0)>>)
                                  \o <<Truncate("Convergence_Result"),
                                       Truncate("Execution_Time")>>)]
    /\ Execution_Time' = IF r = 0 THEN << >> ELSE Execution_Time
    /\ pc' = [pc EXCEPT ![r] = "options"]
    /\ UNCHANGED <<opts, inColl, locals, diff0, sls, vec_data, calls, ev, coll,
                   solves, instances, failed, exitCode, ksp, faults>>

\* PetscOptionsGetInt / PetscOptionsGetString: the value of the option when
\* it was given, otherwise the destination keeps what it held
PetscOptionsGet(name, value, old) ==
    [value |-> IF name \in opts.given THEN value ELSE old,
     found |-> IF name \in opts.given THEN 1 ELSE 0]

\* lines 397-436: the options are read into main's locals, which hold an
\* arbitrary value until assigned; found_options is the product of the flags;
\* a -face_basis value that is neither lagrange nor legendre makes rank 0
\* print two lines; line 447: p1 starts at (unsigned)p_1
ParseOptions(r) ==
    /\ pc[r] = "options"
    /\ \E u \in [p_1 : UninitVals, p_2 : UninitVals,
                 h_1 : UninitVals, h_2 : UninitVals] :
        LET p_1 == PetscOptionsGet("-p_0", opts.p_0, u.p_1)
            p_2 == PetscOptionsGet("-p_n", opts.p_n, u.p_2)
            h_1 == PetscOptionsGet("-h_0", opts.h_0, u.h_1)
            h_2 == PetscOptionsGet("-h_n", opts.h_n, u.h_2)
            amr == PetscOptionsGet("-amr", opts.amr, 0)
            face == PetscOptionsGet("-face_basis", opts.face_basis, "legendre")
        IN  /\ locals' = [locals EXCEPT ![r] =
                            [p_1 |-> p_1.value, p_2 |-> p_2.value,
                             h_1 |-> h_1.value, h_2 |-> h_2.value,
                             p1 |-> ToUnsigned(p_1.value), h1 |-> 0,
                             found_options |->
                                 p_1.found * p_2.found * h_1.found * h_2.found
                                     * amr.found,
                             face_basis_type |-> face.value,
                             face_basis_option_flag |-> (face.found = 1),
                             Adaptive |-> amr.value]]
            /\ io' = [io EXCEPT ![r] =
                        IF face.found = 1
                           /\ face.value \notin {"lagrange", "legendre"}
                        THEN OutLogger(@, r,
                                WriteTo("cout", <<Line(" HEY! : The face basis type", 0),
                                                  Line("buffer", 0)>>))
                        ELSE @]
    /\ pc' = [pc EXCEPT ![r] = "p_loop"]
    /\ UNCHANGED <<opts, petsc, inColl, diff0, sls, vec_data, Execution_Time, calls,
                   ev, coll, solves, instances, failed, exitCode, ksp, faults>>

\* lines 447-450: test of the outer loop, construction of diff0, h1 starts at
\* (unsigned)h_1
DegreeLoop(r) ==
    /\ pc[r] = "p_loop"
    /\ IF LoopCond(locals[r].p1, locals[r].p_2)
       THEN /\ diff0' = [diff0 EXCEPT ![r] = NewDiffusion(locals[r].p1, NRanks, r)]
            /\ instances' = [instances EXCEPT ![r] = Append(@, locals[r].p1)]
            /\ locals' = [locals EXCEPT ![r].h1 = ToUnsigned(locals[r].h_1)]
            /\ Execution_Time' = OpenLog(Execution_Time)
            /\ pc' = [pc EXCEPT ![r] = "h_loop"]
       ELSE /\ pc' = [pc EXCEPT ![r] = "SlepcFinalize"]
            /\ UNCHANGED <<diff0, instances, locals, Execution_Time>>
    /\ UNCHANGED <<opts, io, petsc, inColl, sls, vec_data, calls, ev, coll,
                   solves, failed, exitCode, ksp, faults>>

\* lines 450-456: test of the inner loop; at its end diff0 goes out of scope
\* and ++p1
RefineLoop(r) ==
    /\ pc[r] = "h_loop"
    /\ IF LoopCond(locals[r].h1, locals[r].h_2)
       THEN /\ pc' = [pc EXCEPT ![r] = LoopBody[1]]
            /\ UNCHANGED <<diff0, locals>>
       ELSE /\ diff0' = [diff0 EXCEPT ![r] = NoDiffusion]
            /\ locals' = [locals EXCEPT ![r].p1 = (locals[r].p1 + 1) % Modulus]
            /\ pc' = [pc EXCEPT ![r] = "p_loop"]
    /\ UNCHANGED <<opts, io, petsc, inColl, sls, vec_data, Execution_Time, calls, ev, coll,
                   solves, instances, failed, exitCode, ksp, faults>>

\* the record main's call of op leaves in calls[r]
Call(r, op) == [op |-> op, p |-> locals[r].p1, h |-> locals[r].h1]

\* lines 233-270: Refine_Grid(refinement), Count_Globals(), the two lines rank 0
\* writes to the log (the two std::cout lines need comm_rank == comm_size)
\* Setup_System that refines without counting again
Setup_System_NoCount(inst, refinement, r) == Refine_Grid(inst, refinement)

Setup_System_Inst(inst, refinement, r) ==
    Count_Globals(Refine_Grid(inst, refinement), refinement, r)

Setup_System(r) ==
    /\ pc[r] = "Setup_System"
    /\ diff0' = [diff0 EXCEPT ![r] = Setup_System_Inst(@, locals[r].h1, r)]
    /\ LET lines == <<Line("is entering counter", diff0[r].refn_cycle),
                       Line("has exited counter", diff0[r].refn_cycle)>>
       IN  /\ Execution_Time' = OutLogger(Execution_Time, diff0[r].comm_rank, lines)
           /\ io' = [io EXCEPT ![r] =
                       @ \o WriteTo("cout",
                                IF diff0[r].comm_rank = diff0[r].comm_size
                                THEN <<Line("entering refinement", diff0[r].refn_cycle),
                                       Line("has exited refinement", diff0[r].refn_cycle)>>
                                ELSE << >>)
                         \o Logged(diff0[r].comm_rank, lines)]
    /\ calls' = [calls EXCEPT ![r] = Append(@, Call(r, "Setup_System"))]
    /\ pc' = [pc EXCEPT ![r] = LoopBodyNext("Setup_System")]
    /\ UNCHANGED <<opts, petsc, inColl, locals, sls, vec_data, ev, coll, solves,
                   instances, failed, exitCode, ksp, faults>>

\* line 454 and ++h1 of line 450
vtk_visualizer(r) ==
    /\ pc[r] = "vtk_visualizer"
    /\ calls' = [calls EXCEPT ![r] = Append(@, Call(r, "vtk_visualizer"))]
    /\ locals' = [locals EXCEPT ![r].h1 = (locals[r].h1 + 1) % Modulus]
    /\ pc' = [pc EXCEPT ![r] = LoopBodyNext("vtk_visualizer")]
    /\ UNCHANGED <<opts, io, petsc, inColl, diff0, sls, vec_data, Execution_Time, ev, coll,
                   solves, instances, failed, exitCode, ksp, faults>>

\* lines 458-459
SlepcFinalize(r) ==
    /\ pc[r] = "SlepcFinalize"
    /\ petsc' = [petsc EXCEPT ![r].finalized = @ + 1]
    /\ exitCode' = [exitCode EXCEPT ![r] = NoErr]
    /\ pc' = [pc EXCEPT ![r] = "done"]
    /\ UNCHANGED <<opts, io, inColl, locals, diff0, sls, vec_data, Execution_Time,
                   calls, ev, coll, solves, instances, failed, ksp, faults>>

(* ----------------------- distributed objects --------------------------- *)
Live == {"created", "inserted", "assembled"}

\* MatSetValues / VecSetValues on an object
Inserted(st) == IF st \in Live THEN "inserted" ELSE st

\* MatAssemblyEnd / VecAssemblyEnd on an object
Assembled(st) == IF st \in Live THEN "assembled" ELSE st

\* MatDestroy / VecDestroy on a handle
Destroyed(st) == IF st \in Live THEN "destroyed" ELSE st

\* the four global system objects of an instance
SystemObjects(inst) ==
    <<inst.global_mat, inst.RHS_vec, inst.solution_vec, inst.exact_solution>>

\* entry g (0-based, global numbering) of the distributed solution_vec: it is
\* stored on the rank whose ownership range holds g
GlobalEntry(g) ==
    LET owners == {s \in Ranks : /\ diff0[s].solution_vec \in Live
                                 /\ sls[s].rows_owned_lo <= g
                                 /\ g < sls[s].rows_owned_hi
                                 /\ g - sls[s].rows_owned_lo < Len(vec_data[s])}
    IN  IF owners = {} THEN Undefined
        ELSE LET s == CHOOSE s \in owners : TRUE
             IN  vec_data[s][g - sls[s].rows_owned_lo + 1]

\* VecScatterBegin, SCATTER_FORWARD: the entries named by the index set `from`
\* are fetched from their owners, in the order of `from`
ScatterPack(from) == [i \in 1 .. Len(from) |-> GlobalEntry(from[i])]

\* a scatter that stores the values in the order fetched, ignoring `to`
ScatterUnpack_IgnoreTo(x_array, in_flight, to) ==
    [k \in 1 .. Len(x_array) |->
        IF k <= Len(in_flight) THEN in_flight[k] ELSE x_array[k]]

\* VecScatterEnd, INSERT_VALUES: the i-th value fetched is stored at index
\* to[i] of the sequential vector
ScatterUnpack(x_array, in_flight, to) ==
    [k \in 1 .. Len(x_array) |->
        LET hits == {i \in 1 .. Len(in_flight) : i <= Len(to) /\ to[i] + 1 = k}
        IN  IF hits = {} THEN x_array[k]
            ELSE in_flight[CHOOSE i \in hits : \A j \in hits : j <= i]]

\* entry g of the vector KSPSolve leaves in solution_vec when it stops as o
SolutionEntry(o, g) == g * o.its

Ev(op, ph) == [op |-> op, ph |-> ph]

\* rank r is inside a collective call that every rank has entered as its
\* collective call of the same number
Matched(r) ==
    /\ inColl[r]
    /\ \A s \in Ranks : /\ Len(coll[s]) >= Len(coll[r])
                        /\ coll[s][Len(coll[r])] = coll[r][Len(coll[r])]

\* every other rank waits inside the collective call rank r is about to enter
LastToEnter(r) ==
    \A s \in Ranks \ {r} : /\ inColl[s]
                           /\ Len(coll[s]) = Len(coll[r]) + 1
                           /\ pc[s] = pc[r]

\* what a finished call of Solve_Linear_Systam leaves to the caller: the
\* returned value and the handles of the instance
SolveRecord(r, ret, inst) ==
    [ret |-> ret, objects |-> SystemObjects(inst),
     reason |-> sls[r].How_KSP_Stopped, stopped |-> sls[r].stopped,
     steps |-> ev'[r]]

(* ----------------------- Solve_Linear_Systam --------------------------- *)
\* the local size rank s passes to the creation calls that match those of
\* rank r: the count its instance holds when it is at the same refinement of
\* the same degree, and the count its counter yields there otherwise
LocalSizeOf(s, r) ==
    IF /\ diff0[s].alive
       /\ diff0[s].poly_order = diff0[r].poly_order
       /\ diff0[s].refn_cycle = diff0[r].refn_cycle
    THEN diff0[s].num_global_DOFs_on_this_rank
    ELSE NumOwned(diff0[r].level, s)

\* number of rows the ranks below s own in an object created by rank r and its
\* peers: rank s owns the rows from there on (MatGetOwnershipRange)
RECURSIVE RowsBelow(_, _)
RowsBelow(s, r) ==
    IF s = 0 THEN 0 ELSE RowsBelow(s - 1, r) + LocalSizeOf(s - 1, r)

\* VecCreateMPI with the local size num_local_DOFs_on_this_rank
VecCreateMPI_LocalDOFs(inst) ==
    [n |-> inst.num_local_DOFs_on_this_rank, N |-> inst.num_global_DOFs_on_all_ranks]

\* lines 97-101: MatSetSizes(global_mat, m, n, M, N)
MatSetSizes(inst) ==
    [m |-> inst.num_global_DOFs_on_this_rank, n |-> inst.num_global_DOFs_on_this_rank,
     M |-> inst.num_global_DOFs_on_all_ranks, N |-> inst.num_global_DOFs_on_all_ranks]

\* line 118: VecCreateMPI(comm, n, N, &RHS_vec)
VecCreateMPI(inst) ==
    [n |-> inst.num_global_DOFs_on_this_rank, N |-> inst.num_global_DOFs_on_all_ranks]

\* lines 120-121: VecDuplicate gives a vector of the same sizes
VecDuplicate(v) == v

\* lines 103-107: MatMPIAIJSetPreallocation reads one entry per local row from
\* the array; an entry past its end holds whatever value g is stored there
Preallocation(nnz, m, g) == [i \in 1 .. m |-> IF i <= Len(nnz) THEN nnz[i] ELSE g]

\* number of handles that name a live object
NumLive(handles) == Cardinality({i \in 1 .. Len(handles) : handles[i] \in Live})

\* lines 94-121: creation and sizing of global_mat, preallocation, ownership
\* range, creation of RHS_vec, solution_vec, exact_solution; no return code is
\* looked at
SLS_Create(r) ==
    /\ pc[r] = "Solve_Linear_Systam"
    /\ \E e \in Returns, g \in UninitVals :
        /\ Returned(r, "create", e)
        /\ diff0' = [diff0 EXCEPT ![r] =
                        IF e = NoErr
                        THEN [@ EXCEPT !.global_mat = "created", !.RHS_vec = "created",
                                       !.solution_vec = "created",
                                       !.exact_solution = "created",
                                       !.solved_cycle = diff0[r].refn_cycle]
                        ELSE [@ EXCEPT !.solved_cycle = diff0[r].refn_cycle]]
        /\ sls' = [sls EXCEPT ![r] =
                     [NoSolve EXCEPT
                        !.rows_owned_lo = RowsBelow(r, r),
                        !.rows_owned_hi = RowsBelow(r, r)
                                            + diff0[r].num_global_DOFs_on_this_rank,
                        !.sizes = [global_mat |-> MatSetSizes(diff0[r]),
                                   RHS_vec |-> VecCreateMPI(diff0[r]),
                                   solution_vec |-> VecDuplicate(VecCreateMPI(diff0[r])),
                                   exact_solution |-> VecDuplicate(VecCreateMPI(diff0[r]))],
                        !.d_nnz = Preallocation(diff0[r].n_local_DOFs_connected_to_DOF,
                                                MatSetSizes(diff0[r]).m, g),
                        !.o_nnz = Preallocation(diff0[r].n_nonlocal_DOFs_connected_to_DOF,
                                                MatSetSizes(diff0[r]).m, g),
                        !.prev_solved = diff0[r].solved_cycle]]
        /\ vec_data' = IF e = NoErr
                       THEN [vec_data EXCEPT ![r] =
                               [i \in 1 .. diff0[r].num_global_DOFs_on_this_rank |-> 0]]
                       ELSE vec_data
        /\ petsc' = IF e = NoErr
                    THEN [petsc EXCEPT ![r].objects =
                             @ + NumLive(SystemObjects(diff0'[r]))]
                    ELSE petsc
    /\ calls' = [calls EXCEPT ![r] = Append(@, Call(r, "Solve_Linear_Systam"))]
    /\ ev' = [ev EXCEPT ![r] = <<Ev("create", "ret")>>]
    /\ pc' = [pc EXCEPT ![r] = SLS_Next("Solve_Linear_Systam")]
    /\ UNCHANGED <<opts, io, inColl, locals, Execution_Time, coll, solves, instances,
                   exitCode, ksp>>

\* Assemble_Globals(): the element contributions are inserted into global_mat
\* and RHS_vec, the reference solution into exact_solution
Assemble_Globals_Inst(inst) ==
    [inst EXCEPT !.global_mat = Inserted(@),
                 !.RHS_vec = Inserted(@),
                 !.exact_solution = Inserted(@)]

\* lines 220-221: the elapsed times of assembly (t21 - t11), of the solve from
\* MatAssemblyBegin to VecGetArray (t22 - t12) and of the local solver
\* (t23 - t13), on one line
ElapsedTimes ==
    <<Line("t21 - t11", 0), Line("t22 - t12", 0), Line("t23 - t13", 0)>>

\* Calculate_Internal_Unknowns(p): the skeleton unknowns are read through p
Internal_Unknowns_Read(p, x_array) == IF p = "x" THEN x_array ELSE << >>

\* lines 123-133: Assemble_Globals inserts the element contributions into
\* global_mat, RHS_vec and exact_solution; rank 0 logs the milestones
Assemble_Globals(r) ==
    /\ pc[r] = "Assemble_Globals"
    /\ diff0' = [diff0 EXCEPT ![r] = Assemble_Globals_Inst(@)]
    /\ LET lines == <<Line("Entering assembly", 0),
                       Line("Has finished assembly", 0),
                       Line("Entering solver", 0)>>
       IN  /\ Execution_Time' = OutLogger(Execution_Time, diff0[r].comm_rank, lines)
           /\ io' = [io EXCEPT ![r] = @ \o Logged(diff0[r].comm_rank, lines)]
    /\ ev' = [ev EXCEPT ![r] = Append(@, Ev("insert", "ret"))]
    /\ pc' = [pc EXCEPT ![r] = SLS_Next("Assemble_Globals")]
    /\ UNCHANGED <<opts, petsc, inColl, locals, sls, vec_data, calls, coll, solves,
                   instances, failed, exitCode, ksp, faults>>

\* rank r enters the collective call it is at; the rank that completes the
\* group of a KSPSolve fixes how that solve stops
CollEnter(r) ==
    /\ pc[r] \in Collectives
    /\ ~inColl[r]
    /\ inColl' = [inColl EXCEPT ![r] = TRUE]
    /\ coll' = [coll EXCEPT ![r] = Append(@, pc[r])]
    /\ ev' = [ev EXCEPT ![r] = Append(@, Ev(pc[r], "call"))]
    /\ \E o \in (IF pc[r] = "KSPSolve" /\ LastToEnter(r) THEN KSPOutcomes ELSE {ksp}) :
          ksp' = o
    /\ UNCHANGED <<opts, io, petsc, pc, locals, diff0, sls, vec_data, Execution_Time, calls,
                   solves, instances, failed, exitCode, faults>>

\* rank r returns from the collective call c with the result e
CollReturn(r, c, e) ==
    /\ pc[r] = c
    /\ Matched(r)
    /\ Returned(r, c, e)
    /\ inColl' = [inColl EXCEPT ![r] = FALSE]
    /\ ev' = [ev EXCEPT ![r] = Append(@, Ev(c, "ret"))]

\* lines 136-137: MatAssemblyBegin and CHKERRQ
MatAssemblyBegin(r) ==
    \E e \in Returns :
        /\ CollReturn(r, "MatAssemblyBegin", e)
        /\ pc' = [pc EXCEPT ![r] = CHKERRQ(e, SLS_Next("MatAssemblyBegin"))]
        /\ sls' = [sls EXCEPT ![r].ret = e]
        /\ solves' = IF e # NoErr
                     THEN [solves EXCEPT ![r] = Append(@, SolveRecord(r, e, diff0[r]))]
                     ELSE solves
        /\ UNCHANGED <<opts, io, petsc, locals, diff0, vec_data, Execution_Time, calls, coll,
                       instances, exitCode, ksp>>

\* lines 138-139: MatAssemblyEnd and CHKERRQ
MatAssemblyEnd(r) ==
    \E e \in Returns :
        /\ CollReturn(r, "MatAssemblyEnd", e)
        /\ pc' = [pc EXCEPT ![r] = CHKERRQ(e, SLS_Next("MatAssemblyEnd"))]
        /\ sls' = [sls EXCEPT ![r].ret = e]
        /\ diff0' = IF e = NoErr
                    THEN [diff0 EXCEPT ![r].global_mat = Assembled(@)]
                    ELSE diff0
        /\ solves' = IF e # NoErr
                     THEN [solves EXCEPT ![r] = Append(@, SolveRecord(r, e, diff0[r]))]
                     ELSE solves
        /\ UNCHANGED <<opts, io, petsc, locals, vec_data, Execution_Time, calls, coll,
                       instances, exitCode, ksp>>

\* lines 141-147: VecAssemblyBegin/End of RHS_vec, its norm, VecAssemblyBegin/End
\* of exact_solution; the return codes are dropped
VecAssembly(r) ==
    \E e \in Returns :
        /\ CollReturn(r, "VecAssembly", e)
        /\ pc' = [pc EXCEPT ![r] = SLS_Next("VecAssembly")]
        /\ diff0' = IF e = NoErr
                    THEN [diff0 EXCEPT ![r].RHS_vec = Assembled(@),
                                       ![r].exact_solution = Assembled(@)]
                    ELSE diff0
        /\ sls' = [sls EXCEPT ![r].norms = @ \cup {"rhs_norm"}]
        /\ UNCHANGED <<opts, io, petsc, locals, vec_data, Execution_Time, calls, coll,
                       solves, instances, exitCode, ksp>>

\* line 151: KSPCreate leaves the library defaults
KSPCreate ==
    [rtol |-> "PETSC_DEFAULT", ksp_type |-> "default", pc_type |-> "default",
     pc_gamg_type |-> "", pc_gamg_nsmooths |-> 0]

\* line 152
KSPSetTolerances(k, rtol) == [k EXCEPT !.rtol = rtol]

\* line 154
KSPSetType(k, type) == [k EXCEPT !.ksp_type = type]

\* PCSetFromOptions: -pc_type, when given, names the preconditioner
PCSetFromOptions(k) ==
    [k EXCEPT !.pc_type = PetscOptionsGet("-pc_type", opts.pc_type, @).value]

\* KSPSetFromOptions: -ksp_type, when given, names the solver; the
\* preconditioner of the solver is set from the options as well
KSPSetFromOptions(k) ==
    PCSetFromOptions(
        [k EXCEPT !.ksp_type = PetscOptionsGet("-ksp_type", opts.ksp_type, @).value])

\* lines 161-163: PCSetType(PCGAMG), PCGAMGSetType(PCGAMGAGG),
\* PCGAMGSetNSmooths(1)
PCSetType(k, type) ==
    [k EXCEPT !.pc_type = type, !.pc_gamg_type = "agg", !.pc_gamg_nsmooths = 1]

\* lines 151-163 in program order
KSPConfigured ==
    PCSetType(
        PCSetFromOptions(
            KSPSetFromOptions(
                KSPSetType(KSPSetTolerances(KSPCreate, "1E-8"), "cg"))),
        "gamg")

\* lines 149-163: creation and configuration of the solver and preconditioner
KSPSetup(r) ==
    /\ pc[r] = "KSPSetup"
    /\ \E e \in Returns :
        /\ Returned(r, "KSPSetup", e)
        /\ sls' = IF e = NoErr
                  THEN [sls EXCEPT ![r].TheSolver = "created",
                                   ![r].solver = KSPConfigured]
                  ELSE sls
        /\ petsc' = IF e = NoErr
                    THEN [petsc EXCEPT ![r].objects = @ + 1]
                    ELSE petsc
    /\ ev' = [ev EXCEPT ![r] = Append(@, Ev("KSPSetup", "ret"))]
    /\ pc' = [pc EXCEPT ![r] = SLS_Next("KSPSetup")]
    /\ UNCHANGED <<opts, io, inColl, locals, diff0, vec_data, Execution_Time, calls,
                   coll, solves, instances, exitCode, ksp>>

\* a log that records the outcome of converged solves only
SolverLines_ConvergedOnly(How_KSP_Stopped, num_iter) ==
    IF How_KSP_Stopped > 0
    THEN <<Line("Converged reason is", How_KSP_Stopped),
           Line("Number of iterations is", num_iter),
           Line("Finished solver", 0)>>
    ELSE <<Line("Finished solver", 0)>>

\* a log in which the end of the solver is recorded before its outcome
SolverLines_FinishedFirst(How_KSP_Stopped, num_iter) ==
    <<Line("Finished solver", 0),
      Line("Converged reason is", How_KSP_Stopped),
      Line("Number of iterations is", num_iter)>>

\* lines 169-177: what rank 0 writes to the log after the solve
SolverLines(How_KSP_Stopped, num_iter) ==
    <<Line("Converged reason is", How_KSP_Stopped),
      Line("Number of iterations is", num_iter),
      Line("Finished solver", 0)>>

\* lines 166-181: KSPSolve, the iteration number and the converged reason are
\* fetched and logged by rank 0, the norms are computed
KSPSolve(r) ==
    \E e \in Returns :
        /\ CollReturn(r, "KSPSolve", e)
        /\ LET reason == IF e = NoErr THEN ksp.reason ELSE 0
               its == IF e = NoErr THEN ksp.its ELSE 0
           IN  /\ sls' = [sls EXCEPT ![r].How_KSP_Stopped = reason,
                                     ![r].num_iter = its,
                                     ![r].stopped = (e = NoErr),
                                     ![r].norms = @ \cup {"solution_norm", "accuracy"}]
               /\ Execution_Time' = OutLogger(Execution_Time, diff0[r].comm_rank,
                                              SolverLines(reason, its))
               /\ io' = [io EXCEPT ![r] =
                           @ \o Logged(diff0[r].comm_rank, SolverLines(reason, its))]
        /\ vec_data' = IF e = NoErr /\ diff0[r].solution_vec \in Live
                       THEN [vec_data EXCEPT ![r] =
                               [i \in 1 .. Len(@) |->
                                   SolutionEntry(ksp, sls[r].rows_owned_lo + i - 1)]]
                       ELSE vec_data
        /\ diff0' = IF e = NoErr
                    THEN [diff0 EXCEPT ![r].solution_vec = Assembled(@)]
                    ELSE diff0
        /\ pc' = [pc EXCEPT ![r] = SLS_Next("KSPSolve")]
        /\ UNCHANGED <<opts, petsc, locals, calls, coll, solves, instances, exitCode, ksp>>

\* lines 183-198: the sequential vector x, the index sets from and to (copies
\* of scatter_from and scatter_to) and the scatter context
VecScatterCreate(r) ==
    /\ pc[r] = "VecScatterCreate"
    /\ \E e \in Returns :
        /\ Returned(r, "VecScatterCreate", e)
        /\ sls' = IF e = NoErr
                  THEN [sls EXCEPT
                          ![r].x = "created",
                          ![r].x_array =
                              [k \in 1 .. diff0[r].num_local_DOFs_on_this_rank |-> 0],
                          ![r].from = SubSeq(diff0[r].scatter_from, 1,
                                             diff0[r].num_local_DOFs_on_this_rank),
                          ![r].to = SubSeq(diff0[r].scatter_to, 1,
                                           diff0[r].num_local_DOFs_on_this_rank),
                          ![r].scatter = "created"]
                  ELSE sls
        /\ petsc' = IF e = NoErr
                    THEN [petsc EXCEPT ![r].objects = @ + 4]
                    ELSE petsc
    /\ ev' = [ev EXCEPT ![r] = Append(@, Ev("VecScatterCreate", "ret"))]
    /\ pc' = [pc EXCEPT ![r] = SLS_Next("VecScatterCreate")]
    /\ UNCHANGED <<opts, io, inColl, locals, diff0, vec_data, Execution_Time, calls,
                   coll, solves, instances, exitCode, ksp>>

\* line 199
VecScatterBegin(r) ==
    \E e \in Returns :
        /\ CollReturn(r, "VecScatterBegin", e)
        /\ sls' = IF e = NoErr /\ sls[r].scatter \in Live
                  THEN [sls EXCEPT ![r].in_flight = ScatterPack(sls[r].from)]
                  ELSE sls
        /\ pc' = [pc EXCEPT ![r] = SLS_Next("VecScatterBegin")]
        /\ UNCHANGED <<opts, io, petsc, locals, diff0, vec_data, Execution_Time, calls, coll,
                       solves, instances, exitCode, ksp>>

\* line 200
VecScatterEnd(r) ==
    \E e \in Returns :
        /\ CollReturn(r, "VecScatterEnd", e)
        /\ sls' = IF e = NoErr /\ sls[r].scatter \in Live
                  THEN [sls EXCEPT ![r].x_array =
                           ScatterUnpack(@, sls[r].in_flight, sls[r].to)]
                  ELSE sls
        /\ pc' = [pc EXCEPT ![r] = SLS_Next("VecScatterEnd")]
        /\ UNCHANGED <<opts, io, petsc, locals, diff0, vec_data, Execution_Time, calls, coll,
                       solves, instances, exitCode, ksp>>

\* lines 202-203: local_solution_vec_p points at the array of x
VecGetArray(r) ==
    /\ pc[r] = "VecGetArray"
    /\ sls' = [sls EXCEPT ![r].local_solution_vec_p = "x"]
    /\ ev' = [ev EXCEPT ![r] = Append(@, Ev("VecGetArray", "ret"))]
    /\ pc' = [pc EXCEPT ![r] = SLS_Next("VecGetArray")]
    /\ UNCHANGED <<opts, io, petsc, inColl, locals, diff0, vec_data, Execution_Time, calls,
                   coll, solves, instances, failed, exitCode, ksp, faults>>

\* lines 212-221: Calculate_Internal_Unknowns reads the array it is handed;
\* rank 0 logs the milestones and prints the three elapsed times
Calculate_Internal_Unknowns(r) ==
    /\ pc[r] = "Calculate_Internal_Unknowns"
    /\ sls' = [sls EXCEPT ![r].consumed =
                  Internal_Unknowns_Read(sls[r].local_solution_vec_p, sls[r].x_array)]
    /\ LET lines == <<Line("Entering local solver", 0),
                       Line("Finished local solver", 0)>>
       IN  /\ Execution_Time' = OutLogger(Execution_Time, diff0[r].comm_rank, lines)
           /\ io' = [io EXCEPT ![r] =
                       @ \o Logged(diff0[r].comm_rank, lines)
                         \o WriteTo("cout", OutLogger(<< >>, diff0[r].comm_rank,
                                                      ElapsedTimes))]
    /\ ev' = [ev EXCEPT ![r] = Append(@, Ev("Calculate_Internal_Unknowns", "ret"))]
    /\ pc' = [pc EXCEPT ![r] = SLS_Next("Calculate_Internal_Unknowns")]
    /\ UNCHANGED <<opts, petsc, inColl, locals, diff0, vec_data, calls, coll, solves,
                   instances, failed, exitCode, ksp, faults>>

\* lines 223-229: the four system objects and x are destroyed, return 0
Destroy(r) ==
    /\ pc[r] = "Destroy"
    /\ diff0' = [diff0 EXCEPT ![r] =
                    [@ EXCEPT !.global_mat = Destroyed(@), !.RHS_vec = Destroyed(@),
                              !.exact_solution = Destroyed(@),
                              !.solution_vec = Destroyed(@)]]
    /\ sls' = [sls EXCEPT ![r].x = Destroyed(@), ![r].ret = NoErr]
    /\ petsc' = [petsc EXCEPT ![r].objects =
                    @ - NumLive(SystemObjects(diff0[r]) \o <<sls[r].x>>)]
    /\ vec_data' = [vec_data EXCEPT ![r] = << >>]
    /\ ev' = [ev EXCEPT ![r] = Append(@, Ev("destroy", "ret"))]
    /\ solves' = [solves EXCEPT ![r] = Append(@, SolveRecord(r, NoErr, diff0'[r]))]
    /\ pc' = [pc EXCEPT ![r] = SLS_Return(NoErr)]
    /\ UNCHANGED <<opts, io, inColl, locals, Execution_Time, calls, coll, instances,
                   failed, exitCode, ksp, faults>>

(* --------------------------- specification ----------------------------- *)
Next ==
    \E r \in Ranks :
        \/ StartUp(r)
        \/ ParseOptions(r)
        \/ DegreeLoop(r)
        \/ RefineLoop(r)
        \/ Setup_System(r)
        \/ SLS_Create(r)
        \/ Assemble_Globals(r)
        \/ CollEnter(r)
        \/ MatAssemblyBegin(r)
        \/ MatAssemblyEnd(r)
        \/ VecAssembly(r)
        \/ KSPSetup(r)
        \/ KSPSolve(r)
        \/ VecScatterCreate(r)
        \/ VecScatterBegin(r)
        \/ VecScatterEnd(r)
        \/ VecGetArray(r)
        \/ Calculate_Internal_Unknowns(r)
        \/ Destroy(r)
        \/ vtk_visualizer(r)
        \/ SlepcFinalize(r)

Spec == Init /\ [][Next]_vars

(* ------------------------------ claims --------------------------------- *)
\* the degrees and levels the loops of main run through
FirstP == ToUnsigned(opts.p_0)
NumP == IF ToUnsigned(opts.p_n) > FirstP THEN ToUnsigned(opts.p_n) - FirstP ELSE 0
FirstH == ToUnsigned(opts.h_0)
NumH == IF ToUnsigned(opts.h_n) > FirstH THEN ToUnsigned(opts.h_n) - FirstH ELSE 0

\* one instance per degree, degrees increasing
ExpectedInstances == [k \in 1 .. NumP |-> FirstP + (k - 1)]

\* Setup, Solve, Visualize for each level in increasing order, for each degree
ExpectedCalls ==
    [k \in 1 .. 3 * NumH * NumP |->
        [op |-> <<"Setup_System", "Solve_Linear_Systam", "vtk_visualizer">>[((k - 1) % 3) + 1],
         p |-> FirstP + ((k - 1) \div (3 * NumH)),
         h |-> FirstH + (((k - 1) % (3 * NumH)) \div 3)]]

\* statements of main outside any call of Solve_Linear_Systam
OutsideSolve ==
    {"main", "options", "p_loop", "h_loop", "Setup_System", "Solve_Linear_Systam",
     "vtk_visualizer", "SlepcFinalize", "done"}

OpsOf(log) == [i \in 1 .. Len(log) |-> log[i].op]

\* C1: on every rank one solver instance is built per degree of the outer
\* loop, in increasing order, and the calls main makes are, for each degree and
\* each level in strictly increasing order, Setup_System, Solve_Linear_Systam,
\* vtk_visualizer: what a rank has called so far is a prefix of that sequence
\* and a rank that finished has called all of it (the ranges being those of the
\* loops, from (unsigned)p_1 up to (unsigned)p_2 and (unsigned)h_1 up to
\* (unsigned)h_2).
C1_LoopOrder ==
    \A r \in Ranks :
        /\ IsPrefix(calls[r], ExpectedCalls)
        /\ IsPrefix(instances[r], ExpectedInstances)
        /\ pc[r] = "done" => /\ calls[r] = ExpectedCalls
                             /\ instances[r] = ExpectedInstances

\* a rank finished a run over two degrees with two levels each
C1_Witness ==
    \E r \in Ranks : /\ pc[r] = "done"
                     /\ Len(instances[r]) = 2
                     /\ Len(calls[r]) = 12

FinalizeOps == {"MatAssemblyBegin", "MatAssemblyEnd", "VecAssembly"}

\* C2: within a call of Solve_Linear_Systam every finalization step comes
\* after the insertions of Assemble_Globals and no insertion follows a
\* finalization step; once finalization returned without failure the matrix
\* and the two assembled vectors hold no pending insertion until destroyed.
C2_FinalizeAfterInsert ==
    \A r \in Ranks :
        /\ \A j \in 1 .. Len(ev[r]) :
              ev[r][j].op \in FinalizeOps =>
                 /\ \E i \in 1 .. j - 1 : ev[r][i].op = "insert"
                 /\ \A i \in j .. Len(ev[r]) : ev[r][i].op # "insert"
        /\ (/\ Ev("VecAssembly", "ret") \in {ev[r][i] : i \in 1 .. Len(ev[r])}
            /\ pc[r] \notin OutsideSolve
            /\ failed[r] = NoFailure)
           => /\ diff0[r].global_mat = "assembled"
              /\ diff0[r].RHS_vec = "assembled"
              /\ diff0[r].exact_solution = "assembled"

\* a call went through insertion, finalization and destruction
C2_Witness ==
    \E r \in Ranks :
        /\ pc[r] = "vtk_visualizer"
        /\ Len(ev[r]) > 0
        /\ ev[r][Len(ev[r])] = Ev("destroy", "ret")
        /\ Positions(ev[r], Ev("insert", "ret")) # {}
        /\ Positions(ev[r], Ev("MatAssemblyEnd", "ret")) # {}

\* every occurrence of a in the log comes before every occurrence of b
Before(log, a, b) ==
    \A i \in Positions(log, a) : \A j \in Positions(log, b) : i < j

\* C3: within a call of Solve_Linear_Systam VecScatterBegin is called after
\* KSPSolve returned, VecScatterEnd returns after VecScatterBegin returned, and
\* VecGetArray and Calculate_Internal_Unknowns come after VecScatterEnd
\* returned; when no call failed, the array Calculate_Internal_Unknowns read
\* holds the solution entries the index pair names.
C3_ScatterBeforeRead ==
    \A r \in Ranks :
        /\ Before(ev[r], Ev("KSPSolve", "ret"), Ev("VecScatterBegin", "call"))
        /\ Before(ev[r], Ev("VecScatterBegin", "ret"), Ev("VecScatterEnd", "call"))
        /\ Before(ev[r], Ev("VecScatterEnd", "ret"), Ev("VecGetArray", "ret"))
        /\ Before(ev[r], Ev("VecGetArray", "ret"),
                  Ev("Calculate_Internal_Unknowns", "ret"))
        /\ \A j \in Positions(ev[r], Ev("Calculate_Internal_Unknowns", "ret")) :
              /\ \E i \in 1 .. j : ev[r][i] = Ev("VecScatterBegin", "ret")
              /\ \E i \in 1 .. j : ev[r][i] = Ev("VecScatterEnd", "ret")
              /\ \E i \in 1 .. j : ev[r][i] = Ev("KSPSolve", "ret")
        /\ (pc[r] = "Destroy" /\ faults = 0)
           => /\ Len(sls[r].consumed) = diff0[r].num_local_DOFs_on_this_rank
              /\ \A i \in 1 .. Len(sls[r].from) :
                    sls[r].consumed[sls[r].to[i] + 1]
                        = SolutionEntry(ksp, sls[r].from[i])

\* Calculate_Internal_Unknowns has read a scattered array
C3_Witness ==
    \E r \in Ranks : /\ pc[r] = "Destroy"
                     /\ faults = 0
                     /\ Len(sls[r].consumed) = 2
                     /\ \E i \in 1 .. 2 : sls[r].consumed[i] > 0

\* C5 (as claimed): outside a call of Solve_Linear_Systam none of global_mat,
\* RHS_vec, solution_vec, exact_solution is live: every return path of the
\* call has destroyed them.
C5_Claim ==
    \A r \in Ranks :
        pc[r] \in OutsideSolve =>
            \A i \in 1 .. 4 : SystemObjects(diff0[r])[i] \notin Live

\* C6: while Solve_Linear_Systam runs, Setup_System has run on the same
\* instance since the previous Solve_Linear_Systam (or since construction),
\* the counts and the index pair of the instance are those counted for the
\* current refinement, and the index sets the scatter is built from are that
\* pair.
C6_FreshIndexPair ==
    \A r \in Ranks :
        pc[r] \notin OutsideSolve =>
            LET fresh == Count_Globals(diff0[r], locals[r].h1, r)
            IN  /\ sls[r].prev_solved < diff0[r].refn_cycle
                /\ diff0[r].pair_cycle = diff0[r].refn_cycle
                /\ diff0[r].scatter_from = fresh.scatter_from
                /\ diff0[r].scatter_to = fresh.scatter_to
                /\ diff0[r].num_local_DOFs_on_this_rank
                       = fresh.num_local_DOFs_on_this_rank
                /\ diff0[r].num_global_DOFs_on_this_rank
                       = fresh.num_global_DOFs_on_this_rank
                /\ diff0[r].num_global_DOFs_on_all_ranks
                       = fresh.num_global_DOFs_on_all_ranks
                /\ sls[r].scatter \in Live =>
                       /\ sls[r].from = fresh.scatter_from
                       /\ sls[r].to = fresh.scatter_to

\* the scatter of the second refinement level of an instance has been built
C6_Witness ==
    \E r \in Ranks : /\ pc[r] = "VecScatterBegin"
                     /\ diff0[r].refn_cycle = 2
                     /\ sls[r].scatter \in Live

\* C7 (as claimed): the ranks enter the same collective operations in the
\* same order, each finished call of Solve_Linear_Systam has entered all six,
\* and no rank waits inside a collective operation that a rank which has left
\* main never entered.
C7_Claim ==
    /\ \A r, s \in Ranks : IsPrefix(coll[r], coll[s]) \/ IsPrefix(coll[s], coll[r])
    /\ \A r \in Ranks :
          pc[r] \in OutsideSolve => Len(coll[r]) = 6 * Len(solves[r])
    /\ \A r, s \in Ranks :
          (inColl[r] /\ pc[s] = "done") => Len(coll[s]) >= Len(coll[r])

\* C8 (as claimed): once a PETSc call of a rank has returned a failure the
\* rank executes nothing further: main has ended and returned that code.
C8_Claim ==
    \A r \in Ranks :
        failed[r] # NoFailure =>
            /\ pc[r] = "done"
            /\ exitCode[r] = failed[r].code

\* the steps of a call of Solve_Linear_Systam from KSPSolve to its end
StepsAfterSolve ==
    <<"KSPSolve", "VecScatterCreate", "VecScatterBegin", "VecScatterBegin",
      "VecScatterEnd", "VecScatterEnd", "VecGetArray",
      "Calculate_Internal_Unknowns", "destroy">>

\* the last n elements of the sequence q
Tail_n(q, n) == SubSeq(q, Len(q) - n + 1, Len(q))

\* C9: a KSPSolve that stops with a negative reason does not end the call:
\* rank 0 has logged the reason and the iteration count, the call goes on to
\* the scatter and Calculate_Internal_Unknowns and returns 0 after destroying
\* the system objects, and main goes on to vtk_visualizer and the following
\* levels as laid out by the loops.
C9_NonConvergedContinues ==
    \A r \in Ranks :
        /\ (/\ pc[r] \notin OutsideSolve
            /\ sls[r].stopped
            /\ sls[r].How_KSP_Stopped < 0
            /\ diff0[r].comm_rank = 0)
           => \E i \in 1 .. Len(Execution_Time) - 1 :
                 /\ Execution_Time[i]
                       = Line("Converged reason is", sls[r].How_KSP_Stopped)
                 /\ Execution_Time[i + 1]
                       = Line("Number of iterations is", sls[r].num_iter)
        /\ \A k \in 1 .. Len(solves[r]) :
              (solves[r][k].stopped /\ solves[r][k].reason < 0)
              => /\ solves[r][k].ret = NoErr
                 /\ Len(solves[r][k].steps) >= Len(StepsAfterSolve)
                 /\ OpsOf(Tail_n(solves[r][k].steps, Len(StepsAfterSolve)))
                       = StepsAfterSolve
                 /\ (k < Len(solves[r]) \/ pc[r] # "vtk_visualizer")
                    => /\ Len(calls[r]) >= 3 * k
                       /\ calls[r][3 * k].op = "vtk_visualizer"
                 /\ IsPrefix(calls[r], ExpectedCalls)
                 /\ pc[r] = "done" => calls[r] = ExpectedCalls

\* a rank finished main after a non-converged solve that was followed by
\* another level
C9_Witness ==
    \E r \in Ranks :
        /\ pc[r] = "done"
        /\ Len(solves[r]) >= 2
        /\ solves[r][1].stopped
        /\ solves[r][1].reason < 0
        /\ Len(calls[r]) >= 6

\* C10 (as claimed): what a finished call of Solve_Linear_Systam leaves to
\* its caller, the returned value and the state of the instance, tells the
\* stopping reason: two calls without any failing PETSc call whose solver
\* stopped for different reasons leave different results.
C10_Claim ==
    \A r \in Ranks :
        \A j, k \in 1 .. Len(solves[r]) :
            (/\ failed[r] = NoFailure
             /\ solves[r][j].stopped
             /\ solves[r][k].stopped
             /\ solves[r][j].reason # solves[r][k].reason)
            => <<solves[r][j].ret, solves[r][j].objects>>
                   # <<solves[r][k].ret, solves[r][k].objects>>

(* ---------------- the scatter on arbitrary index pairs ----------------- *)
RECURSIVE SumTo(_, _)
SumTo(cnt, r) == IF r = 0 THEN 0 ELSE SumTo(cnt, r - 1) + cnt[r - 1]

\* the index pairs a rank may hold for a local array of length n over nAll
\* global entries
IndexPairs(nAll) ==
    UNION {[from : [1 .. n -> 0 .. nAll - 1], to : [1 .. n -> 0 .. n - 1]]
              : n \in 1 .. MaxLocal}

\* every rank is about to call VecScatterBegin (line 199) in a call of
\* Solve_Linear_Systam whose KSPSolve stopped as ksp, for some ownership
\* layout and some index pair per rank
ScatterInit ==
    /\ opts \in [given : {LoopOptions}, p_0 : {0}, p_n : {1}, h_0 : {0}, h_n : {1},
                 amr : {0}, ksp_type : {""}, pc_type : {""}, face_basis : {""}]
    /\ io = [r \in Ranks |-> << >>]
    /\ petsc = [r \in Ranks |-> [NoPetsc EXCEPT !.initialized = 1]]
    /\ ksp \in KSPOutcomes
    /\ \E cnt \in [Ranks -> 1 .. MaxOwned] :
        \E pair \in [Ranks -> IndexPairs(SumTo(cnt, NRanks))] :
            /\ diff0 = [r \in Ranks |->
                  [NewDiffusion(0, NRanks, r) EXCEPT
                     !.refn_cycle = 1, !.pair_cycle = 1, !.solved_cycle = 1,
                     !.num_local_DOFs_on_this_rank = Len(pair[r].from),
                     !.num_global_DOFs_on_this_rank = cnt[r],
                     !.num_global_DOFs_on_all_ranks = SumTo(cnt, NRanks),
                     !.scatter_from = pair[r].from,
                     !.scatter_to = pair[r].to,
                     !.global_mat = "assembled", !.RHS_vec = "assembled",
                     !.solution_vec = "assembled",
                     !.exact_solution = "assembled"]]
            /\ sls = [r \in Ranks |->
                  [NoSolve EXCEPT
                     !.rows_owned_lo = SumTo(cnt, r),
                     !.rows_owned_hi = SumTo(cnt, r) + cnt[r],
                     !.How_KSP_Stopped = ksp.reason, !.num_iter = ksp.its,
                     !.stopped = TRUE, !.TheSolver = "created",
                     !.x = "created",
                     !.x_array = [k \in 1 .. Len(pair[r].from) |-> 0],
                     !.from = pair[r].from, !.to = pair[r].to,
                     !.scatter = "created"]]
            /\ vec_data = [r \in Ranks |->
                  [i \in 1 .. cnt[r] |-> SolutionEntry(ksp, SumTo(cnt, r) + i - 1)]]
    /\ pc = [r \in Ranks |-> "VecScatterBegin"]
    /\ inColl = [r \in Ranks |-> FALSE]
    /\ locals = [r \in Ranks |->
                    [NoLocals EXCEPT !.p_2 = 1, !.h_2 = 1, !.found_options = 1,
                                     !.face_basis_type = "legendre"]]
    /\ Execution_Time = << >>
    /\ calls = [r \in Ranks |-> << >>]
    /\ ev = [r \in Ranks |-> << >>]
    /\ coll = [r \in Ranks |-> << >>]
    /\ solves = [r \in Ranks |-> << >>]
    /\ instances = [r \in Ranks |-> <<0>>]
    /\ failed = [r \in Ranks |-> NoFailure]
    /\ exitCode = [r \in Ranks |-> NoErr]
    /\ faults = 0

\* lines 199-200 on every rank
ScatterNext ==
    \E r \in Ranks :
        \/ CollEnter(r)
        \/ VecScatterBegin(r)
        \/ VecScatterEnd(r)

SpecScatter == ScatterInit /\ [][ScatterNext]_vars

\* the index pair of rank r is well formed: both sequences have the length
\* of the local array and `to` is one-to-one onto its indices
WellFormedPair(r) ==
    LET n == diff0[r].num_local_DOFs_on_this_rank
    IN  /\ Len(sls[r].from) = n
        /\ Len(sls[r].to) = n
        /\ {sls[r].to[i] : i \in 1 .. n} = 0 .. n - 1

\* C4: after VecScatterBegin and VecScatterEnd returned without failure on a
\* rank whose index pair is well formed, the local array has length
\* num_local_DOFs_on_this_rank and holds at index scatter_to[i] the entry
\* scatter_from[i] of the distributed solution, whichever rank owns it; for
\* the solution with v[i] = i it holds scatter_from[i] itself.
C4_ScatterContract ==
    \A r \in Ranks :
        (/\ pc[r] = "VecGetArray"
         /\ failed[r] = NoFailure
         /\ WellFormedPair(r))
        => /\ Len(sls[r].x_array) = diff0[r].num_local_DOFs_on_this_rank
           /\ \A i \in 1 .. Len(sls[r].from) :
                 /\ sls[r].x_array[sls[r].to[i] + 1]
                       = SolutionEntry(ksp, sls[r].from[i])
                 /\ ksp.its = 1 =>
                       sls[r].x_array[sls[r].to[i] + 1] = sls[r].from[i]

\* a rank has scattered, in reverse order, an entry another rank owns and an
\* entry of its own
C4_Witness ==
    \E r \in Ranks :
        /\ pc[r] = "VecGetArray"
        /\ failed[r] = NoFailure
        /\ WellFormedPair(r)
        /\ sls[r].to = <<1, 0>>
        /\ sls[r].from[1] >= sls[r].rows_owned_hi
        /\ sls[r].from[2] = sls[r].rows_owned_lo
        /\ sls[r].x_array[1] # sls[r].x_array[2]

(* ------------------- runs over other command lines --------------------- *)
\* one degree and one level, with or without -ksp_type and -pc_type
SolverCmdLines ==
    [given : {LoopOptions \cup x : x \in SUBSET {"-ksp_type", "-pc_type"}},
     p_0 : {0}, p_n : {1}, h_0 : {0}, h_n : {1}, amr : {0},
     ksp_type : KspTypeVals, pc_type : PcTypeVals, face_basis : {""}]

\* one degree and one level, with -face_basis
FaceCmdLines ==
    [given : {LoopOptions \cup {"-face_basis"}},
     p_0 : {0}, p_n : {1}, h_0 : {0}, h_n : {1}, amr : {0},
     ksp_type : {""}, pc_type : {""}, face_basis : FaceBasisVals]

\* any of -p_0, -p_n, -h_0, -h_n left out
AbsentCmdLines ==
    [given : {{"-amr"} \cup x : x \in SUBSET {"-p_0", "-p_n", "-h_0", "-h_n"}},
     p_0 : {0}, p_n : {1}, h_0 : {0}, h_n : {1}, amr : {0},
     ksp_type : {""}, pc_type : {""}, face_basis : {""}]

InitOptions == InitRun(SolverCmdLines \cup FaceCmdLines \cup AbsentCmdLines)

SpecOptions == InitOptions /\ [][Next]_vars

\* C11 (as claimed): when KSPSolve is called the solver has the relative
\* tolerance 1E-8, the solver type is the one -ksp_type names and cg when the
\* option is not given, and the preconditioner type is the one -pc_type names
\* and gamg when the option is not given.
C11_Claim ==
    \A r \in Ranks :
        (pc[r] = "KSPSolve" /\ sls[r].TheSolver \in Live)
        => /\ sls[r].solver.rtol = "1E-8"
           /\ sls[r].solver.ksp_type =
                 PetscOptionsGet("-ksp_type", opts.ksp_type, "cg").value
           /\ sls[r].solver.pc_type =
                 PetscOptionsGet("-pc_type", opts.pc_type, "gamg").value

(* ------------- Solve_Linear_Systam on arbitrary DOF counts -------------- *)
\* the instance of rank r after Setup_System(0) when its counter has left the
\* owned count n, the global count nAll and coupling arrays of length len
CountedInstance(r, n, nAll, len) ==
    [Setup_System_Inst(NewDiffusion(0, NRanks, r), 0, r) EXCEPT
        !.num_global_DOFs_on_this_rank = n,
        !.num_global_DOFs_on_all_ranks = nAll,
        !.n_local_DOFs_connected_to_DOF = [i \in 1 .. len |-> 1],
        !.n_nonlocal_DOFs_connected_to_DOF = [i \in 1 .. len |-> 1]]

\* the lines Setup_System logs in the first refinement cycle
FirstSetupLines ==
    <<Line("is entering counter", 0), Line("has exited counter", 0)>>

\* every rank is about to call Solve_Linear_Systam (line 453) for the first
\* time, for some owned count per rank, some global count and some length of
\* the coupling arrays per rank
SolveInit ==
    /\ opts \in [given : {LoopOptions}, p_0 : {0}, p_n : {1}, h_0 : {0}, h_n : {1},
                 amr : {0}, ksp_type : {""}, pc_type : {""}, face_basis : {""}]
    /\ io = [r \in Ranks |->
                OutLogger(<< >>, r,
                    WriteTo("cout", <<Line("help_line", 0)>>)
                      \o <<Truncate("Convergence_Result"), Truncate("Execution_Time")>>)
                  \o Logged(r, FirstSetupLines)]
    /\ petsc = [r \in Ranks |-> [NoPetsc EXCEPT !.initialized = 1]]
    /\ \E cnt \in [Ranks -> 1 .. MaxOwned] :
        \E nAll \in 1 .. NRanks * MaxOwned :
            \E short \in [Ranks -> {0, 1}] :
                diff0 = [r \in Ranks |->
                            CountedInstance(r, cnt[r], nAll, cnt[r] - short[r])]
    /\ pc = [r \in Ranks |-> "Solve_Linear_Systam"]
    /\ inColl = [r \in Ranks |-> FALSE]
    /\ locals = [r \in Ranks |->
                    [NoLocals EXCEPT !.p_2 = 1, !.h_2 = 1, !.found_options = 1,
                                     !.face_basis_type = "legendre"]]
    /\ sls = [r \in Ranks |-> NoSolve]
    /\ vec_data = [r \in Ranks |-> << >>]
    /\ Execution_Time = FirstSetupLines
    /\ calls = [r \in Ranks |-> <<[op |-> "Setup_System", p |-> 0, h |-> 0]>>]
    /\ ev = [r \in Ranks |-> << >>]
    /\ coll = [r \in Ranks |-> << >>]
    /\ solves = [r \in Ranks |-> << >>]
    /\ instances = [r \in Ranks |-> <<0>>]
    /\ failed = [r \in Ranks |-> NoFailure]
    /\ exitCode = [r \in Ranks |-> NoErr]
    /\ ksp = CHOOSE o \in KSPOutcomes : TRUE
    /\ faults = 0

\* lines 94-229 on every rank
SolveNext ==
    \E r \in Ranks :
        \/ SLS_Create(r)
        \/ Assemble_Globals(r)
        \/ CollEnter(r)
        \/ MatAssemblyBegin(r)
        \/ MatAssemblyEnd(r)
        \/ VecAssembly(r)
        \/ KSPSetup(r)
        \/ KSPSolve(r)
        \/ VecScatterCreate(r)
        \/ VecScatterBegin(r)
        \/ VecScatterEnd(r)
        \/ VecGetArray(r)
        \/ Calculate_Internal_Unknowns(r)
        \/ Destroy(r)

SpecSolve == SolveInit /\ [][SolveNext]_vars

\* the three vectors of an instance
VectorNames == {"RHS_vec", "solution_vec", "exact_solution"}

\* rank r is inside Solve_Linear_Systam, past the creation calls
HasCreated(r) == pc[r] \notin OutsideSolve

\* every rank is inside the same call of Solve_Linear_Systam, past the
\* creation calls
AllCreated == \A r, s \in Ranks : HasCreated(r) /\ calls[r] = calls[s]

\* rows of the vector v rank r owns: those after the rows of the lower ranks
RECURSIVE VecRowsBelow(_, _)
VecRowsBelow(v, r) ==
    IF r = 0 THEN 0 ELSE VecRowsBelow(v, r - 1) + sls[r - 1].sizes[v].n

VecRange(v, r) == VecRowsBelow(v, r) .. (VecRowsBelow(v, r) + sls[r].sizes[v].n - 1)

\* rows of global_mat rank r owns, as MatGetOwnershipRange returned them
MatRange(r) == sls[r].rows_owned_lo .. (sls[r].rows_owned_hi - 1)

\* the owned counts of the ranks add up to the global count every rank holds
RECURSIVE SumOwned(_)
SumOwned(r) ==
    IF r = 0 THEN 0 ELSE SumOwned(r - 1) + diff0[r - 1].num_global_DOFs_on_this_rank

CountsAddUp ==
    \A r \in Ranks : diff0[r].num_global_DOFs_on_all_ranks = SumOwned(NRanks)

\* C12: on every rank global_mat, RHS_vec, solution_vec and exact_solution are
\* created with the local size num_global_DOFs_on_this_rank and the global
\* size num_global_DOFs_on_all_ranks, so once every rank has created them in a call the
\* rows of the matrix a rank owns are the rows it owns of each vector; when
\* the owned counts add up to the global count, the ranges of the ranks are
\* pairwise disjoint and together are exactly 0 .. num_global_DOFs_on_all_ranks - 1.
C12_SameLayout ==
    /\ \A r \in Ranks :
          HasCreated(r) =>
             /\ sls[r].sizes.global_mat =
                   [m |-> diff0[r].num_global_DOFs_on_this_rank,
                    n |-> diff0[r].num_global_DOFs_on_this_rank,
                    M |-> diff0[r].num_global_DOFs_on_all_ranks,
                    N |-> diff0[r].num_global_DOFs_on_all_ranks]
             /\ \A v \in VectorNames :
                   sls[r].sizes[v] =
                      [n |-> diff0[r].num_global_DOFs_on_this_rank,
                       N |-> diff0[r].num_global_DOFs_on_all_ranks]
    /\ AllCreated =>
          /\ \A r \in Ranks : \A v \in VectorNames : VecRange(v, r) = MatRange(r)
          /\ CountsAddUp =>
                /\ \A r, s \in Ranks : r # s => MatRange(r) \cap MatRange(s) = {}
                /\ UNION {MatRange(r) : r \in Ranks}
                      = 0 .. (diff0[0].num_global_DOFs_on_all_ranks - 1)
                /\ \A r \in Ranks \ {0} :
                      sls[r].rows_owned_lo = sls[r - 1].rows_owned_hi

\* every rank has created the objects of a system of three rows of which rank
\* 0 owns two
C12_Witness ==
    /\ AllCreated
    /\ \A s \in Ranks : diff0[s].global_mat \in Live
    /\ CountsAddUp
    /\ diff0[0].num_global_DOFs_on_all_ranks = 3
    /\ MatRange(0) = {0, 1}
    /\ VecRange("solution_vec", 1) = {2}

\* the counts Solve_Linear_Systam is handed do not fit together
Inconsistent ==
    \/ ~CountsAddUp
    \/ \E r \in Ranks :
          \/ Len(diff0[r].n_local_DOFs_connected_to_DOF)
                # diff0[r].num_global_DOFs_on_this_rank
          \/ Len(diff0[r].n_nonlocal_DOFs_connected_to_DOF)
                # diff0[r].num_global_DOFs_on_this_rank

\* C13 (as claimed): a call of Solve_Linear_Systam that is handed inconsistent
\* counts does not go on to assemble, solve or scatter.
C13_Claim ==
    Inconsistent =>
        \A r \in Ranks :
            \A i \in 1 .. Len(ev[r]) :
                ev[r][i].op \notin {"insert", "MatAssemblyBegin", "KSPSolve",
                                    "VecScatterBegin"}

(* --------------------------- output streams ---------------------------- *)
\* the lines rank r wrote to the stream, in order
Written(r, stream) ==
    LET w == SelectSeq(io[r], LAMBDA e : e.stream = stream /\ e.op = "write")
    IN  [i \in 1 .. Len(w) |-> w[i].line]

\* rank r wrote a line with the text msg to the stream
Reported(r, stream, msg) ==
    \E i \in 1 .. Len(Written(r, stream)) : Written(r, stream)[i].msg = msg

\* C14: no rank other than 0 writes to standard output, to the Execution_Time
\* log or to the convergence-results file or truncates one of them, in main,
\* Setup_System, Solve_Linear_Systam or through OutLogger.
C14_OnlyRankZeroWrites == \A r \in Ranks \ {0} : io[r] = << >>

\* a rank other than 0 finished a run with a rejected -face_basis value in
\* which rank 0 wrote the error to standard output and a solve to the log
C14_Witness ==
    \E r \in Ranks \ {0} :
        /\ pc[r] = "done"
        /\ Len(calls[r]) = 3
        /\ locals[r].face_basis_option_flag
        /\ locals[r].face_basis_type = "nodal"
        /\ Reported(0, "cout", " HEY! : The face basis type")
        /\ Reported(0, "Execution_Time", "Finished solver")

\* positions in io[r] at which rank r truncated the stream
Truncations(r, stream) == Positions(io[r], Truncate(stream))

\* position in the log of the k-th line with the text msg
KthLine(log, msg, k) ==
    LET P == {i \in 1 .. Len(log) : log[i].msg = msg}
    IN  CHOOSE i \in P : Cardinality({j \in P : j <= i}) = k

\* the milestones of a call of Solve_Linear_Systam that ran to its end
Milestones ==
    <<"Entering assembly", "Has finished assembly", "Entering solver",
      "Converged reason is", "Number of iterations is", "Finished solver">>

\* C15: the execution-time log is truncated by rank 0 only, once, when it
\* starts and before anything is written to the log; from then on the file
\* holds every line written to it, in the order written (nothing is removed or
\* changed), and for each call of Solve_Linear_Systam of rank 0 that ran to
\* its end the log holds, starting at the call's "Entering assembly", the
\* six milestones in order, the reason being the one the solve stopped with.
C15_AppendOnlyLog ==
    /\ \A r \in Ranks \ {0} : Truncations(r, "Execution_Time") = {}
    /\ Cardinality(Truncations(0, "Execution_Time")) = (IF pc[0] = "main" THEN 0 ELSE 1)
    /\ \A t \in Truncations(0, "Execution_Time") :
          \A i \in 1 .. t :
              ~(io[0][i].stream = "Execution_Time" /\ io[0][i].op = "write")
    /\ pc[0] = "main" => (calls[0] = << >> /\ Execution_Time = StaleLog)
    /\ pc[0] # "main" => Execution_Time = Written(0, "Execution_Time")
    /\ \A k \in 1 .. Len(solves[0]) :
          (solves[0][k].ret = NoErr /\ solves[0][k].steps[Len(solves[0][k].steps)]
                                           = Ev("destroy", "ret"))
          => LET a == KthLine(Execution_Time, "Entering assembly", k)
             IN  /\ a + 5 <= Len(Execution_Time)
                 /\ \A i \in 1 .. 6 : Execution_Time[a + i - 1].msg = Milestones[i]
                 /\ Execution_Time[a + 3].val = solves[0][k].reason

\* rank 0 finished a run of two calls of Solve_Linear_Systam that ran to their
\* end and the log no longer holds the lines of the earlier run
C15_Witness ==
    /\ pc[0] = "done"
    /\ Len(solves[0]) = 2
    /\ \A k \in 1 .. 2 : solves[0][k].ret = NoErr
    /\ Cardinality(Truncations(0, "Execution_Time")) = 1
    /\ Execution_Time[1] # StaleLog[1]
    /\ Len(Execution_Time) >= 20

\* the three norms a call of Solve_Linear_Systam computes (lines 143-144, 174-175,
\* 179-181)
NormNames == {"rhs_norm", "solution_norm", "accuracy"}

\* C16 (as claimed): when a call of Solve_Linear_Systam of rank 0 has reached
\* its end, rank 0 has reported the elapsed times of assembly and of the
\* solve, the converged reason, the iteration count and each of the three
\* norms the call computed.
C16_Claim ==
    \A r \in Ranks :
        (diff0[r].comm_rank = 0 /\ pc[r] = "Destroy")
        => /\ Reported(r, "cout", "t21 - t11")
           /\ Reported(r, "cout", "t22 - t12")
           /\ Reported(r, "Execution_Time", "Converged reason is")
           /\ Reported(r, "Execution_Time", "Number of iterations is")
           /\ \A n \in sls[r].norms :
                 Reported(r, "cout", n) \/ Reported(r, "Execution_Time", n)

\* C17 (as claimed): after the options were read with a -face_basis value that
\* is neither legendre nor lagrange, rank 0 and no other rank has printed the
\* error, the face-basis setting main holds is the default legendre, and a
\* rank that finished has run the loops as for a valid value.
C17_Claim ==
    \A r \in Ranks :
        (/\ pc[r] \notin {"main", "options"}
         /\ "-face_basis" \in opts.given
         /\ opts.face_basis \notin {"legendre", "lagrange"})
        => /\ Reported(r, "cout", " HEY! : The face basis type") <=> (r = 0)
           /\ locals[r].face_basis_type = "legendre"
           /\ pc[r] = "done" => /\ instances[r] = ExpectedInstances
                                /\ calls[r] = ExpectedCalls
                                /\ Len(calls[r]) > 0

\* C18 (as claimed): when a call of Solve_Linear_Systam in which no PETSc call
\* failed has returned, the sequential vector x, the solver, the index sets
\* and the scatter context it created are released, and at the start of every
\* iteration of the loops of main the rank holds as many live PETSc objects
\* as at the start of the first one, none.
C18_Claim ==
    \A r \in Ranks :
        (failed[r] = NoFailure /\ pc[r] \in OutsideSolve)
        => /\ sls[r].x \notin Live
           /\ sls[r].TheSolver \notin Live
           /\ sls[r].scatter \notin Live
           /\ petsc[r].objects = 0

\* max(0, b - a)
Span(a, b) == IF b > a THEN b - a ELSE 0

\* C19 (as claimed): SlepcFinalize is called once, when the loops are left,
\* and a rank that finished has built max(0, p_2 - p_1) instances and run
\* max(0, h_2 - h_1) triples of Setup_System, Solve_Linear_Systam,
\* vtk_visualizer for each, p_1, p_2, h_1, h_2 being the signed option values.
C19_Claim ==
    \A r \in Ranks :
        /\ petsc[r].finalized = (IF pc[r] = "done" THEN 1 ELSE 0)
        /\ pc[r] = "done" =>
              /\ Len(instances[r]) = Span(locals[r].p_1, locals[r].p_2)
              /\ Len(calls[r]) = 3 * Span(locals[r].h_1, locals[r].h_2)
                                   * Span(locals[r].p_1, locals[r].p_2)

\* C20 (as claimed): when one of -p_0, -p_n, -h_0, -h_n was not given, so
\* that found_options is 0 after the options were read, main builds no
\* instance and runs no iteration of its loops.
C20_Claim ==
    \A r \in Ranks :
        (pc[r] \notin {"main", "options"} /\ locals[r].found_options = 0)
        => /\ instances[r] = << >>
           /\ calls[r] = << >>

====
